---- MODULE Spec2Model ----
(***************************************************************************)
(* PDFAssistant (src/PDFread.py): the sentence chunker _split_text and the *)
(* two aggregators generate_summary and answer_question, each of which     *)
(* runs one backend call per chunk under a threading.Timer watchdog.       *)
(*                                                                         *)
(* Strings are sequences of one-character strings.                         *)
(***************************************************************************)
EXTENDS Integers, Sequences, FiniteSets, TLC

(* ---------------------------- bounds ---------------------------------- *)
\* SpecSplit: sentences are strings over {"a", " "} of at most MaxSentLen
\* characters, at most MaxSentences of them, chunked with max_length in
\* 1..MaxLength and overlap in 0..max_length-1.
MaxSentLen == 3
MaxSentences == 3
MaxLength == 4

(* ------------------------ string helpers ------------------------------ *)
Min(a, b) == IF a <= b THEN a ELSE b
Max(a, b) == IF a >= b THEN a ELSE b

\* the characters str.strip() and str.isspace() treat as whitespace
IsSpace(c) == c \in {" ", "\n", "\t"}

\* str.isspace(): at least one character, all of them whitespace
isspace(s) == Len(s) > 0 /\ \A p \in 1..Len(s) : IsSpace(s[p])

RECURSIVE LStrip(_)
LStrip(s) == IF s = <<>> THEN s
             ELSE IF IsSpace(Head(s)) THEN LStrip(Tail(s)) ELSE s

RECURSIVE RStrip(_)
RStrip(s) == IF s = <<>> THEN s
             ELSE IF IsSpace(s[Len(s)]) THEN RStrip(SubSeq(s, 1, Len(s) - 1))
             ELSE s

\* str.strip()
strip(s) == RStrip(LStrip(s))

\* s[-n:] for 0 <= n <= len(s)
Suffix(s, n) == SubSeq(s, Len(s) - n + 1, Len(s))

IsPrefix(p, s) == Len(p) <= Len(s) /\ SubSeq(s, 1, Len(p)) = p

IsSuffix(p, s) == Len(p) <= Len(s) /\ Suffix(s, Len(p)) = p

\* " ".join(parts)
RECURSIVE Join(_)
Join(parts) == IF parts = <<>> THEN <<>>
               ELSE IF Len(parts) = 1 THEN parts[1]
               ELSE parts[1] \o <<" ">> \o Join(Tail(parts))

Rep(c, n) == [p \in 1..n |-> c]

(* --------------------------- _split_text ------------------------------ *)
\* Fits with the bound off by one: a fault C2_LengthBound detects
FitsOffByOne(current, sentence, maxlen) == Len(current) + Len(sentence) <= maxlen + 1

\* line 278: the sentence still fits the running buffer
Fits(current, sentence, maxlen) == Len(current) + Len(sentence) <= maxlen

\* OverlapTail one character short: a fault C3_OverlapPrefix and
\* C9_LongSentence detect
OverlapTailShort(current, ov) ==
    LET overlap_point == Max(0, Len(current) - ov + 1)
    IN  SubSeq(current, overlap_point + 1, Len(current))

\* lines 284-285: current_chunk[overlap_point:]
OverlapTail(current, ov) ==
    LET overlap_point == Max(0, Len(current) - ov)
    IN  SubSeq(current, overlap_point + 1, Len(current))

\* lines 281-282 and 288-289: only a buffer that is non-empty after strip()
\* is appended, stripped
Emit(cs, current) == IF strip(current) # <<>> THEN Append(cs, strip(current)) ELSE cs

\* SplitStep without the append of line 282: a fault C8_SentenceOrder detects
SplitStepNoEmit(st, sentence, maxlen, ov) ==
    IF Fits(st.current_chunk, sentence, maxlen)
    THEN [chunks |-> st.chunks,
          current_chunk |-> st.current_chunk \o <<" ">> \o sentence]
    ELSE [chunks |-> st.chunks,
          current_chunk |-> OverlapTail(st.current_chunk, ov) \o <<" ">> \o sentence]

\* lines 278-285: one iteration of the loop over the sentences
SplitStep(st, sentence, maxlen, ov) ==
    IF Fits(st.current_chunk, sentence, maxlen)
    THEN [chunks |-> st.chunks,
          current_chunk |-> st.current_chunk \o <<" ">> \o sentence]
    ELSE [chunks |-> Emit(st.chunks, st.current_chunk),
          current_chunk |-> OverlapTail(st.current_chunk, ov) \o <<" ">> \o sentence]

\* lines 287-291: the last buffer, then return
SplitFinish(st) == Emit(st.chunks, st.current_chunk)

\* lines 274-291 as a fold over the sentences
RECURSIVE SplitLoop(_, _, _, _)
SplitLoop(st, sents, maxlen, ov) ==
    IF sents = <<>> THEN SplitFinish(st)
    ELSE SplitLoop(SplitStep(st, Head(sents), maxlen, ov), Tail(sents), maxlen, ov)

\* lines 261-291; sents is what sent_tokenize (or the fallback) gives for text
split_text(text, sents, maxlen, ov) ==
    IF text = <<>> \/ isspace(text) THEN <<>>
    ELSE SplitLoop([chunks |-> <<>>, current_chunk |-> <<>>], sents, maxlen, ov)

(* ------------------------- program constants -------------------------- *)
SummaryMaxLength == 500
SummaryOverlap == 50
AnswerMaxLength == 1000
AnswerOverlap == 100
MinChunkLength == 100

(* ------------------------------ state --------------------------------- *)
VARIABLES
    \* a direct call of _split_text's chunking loop
    max_length,      \* argument
    overlap,         \* argument
    k,               \* number of sentences the for loop has consumed
    current_chunk,   \* local of _split_text
    split_pc,        \* "off" | "loop" | "returned"
    \* shared by the direct call and the aggregators
    sentences,       \* what the sentence splitter gives for the text
    chunks,          \* the chunk list (being built, or as returned)
    \* the PDFAssistant object
    pdf_text,        \* self.pdf_text
    summary,         \* self.summary
    \* the running generate_summary / answer_question call
    pc,              \* position of the main thread
    question,        \* argument of answer_question
    i,               \* 1-based index of the chunk the for loop is at
    summaries,       \* local of generate_summary
    best_answer,     \* local of answer_question
    highest_score,   \* local of answer_question, in thousandths
    exc,             \* exception propagating in the main thread: "none" | "TimeoutException" | "Exception"
    armed,           \* chunks whose Timer is started, not yet fired or cancelled
    result,          \* what the last call returned
    last,            \* which call returned last: "none" | "summary" | "answer"
    \* history of the running call
    invoked,         \* chunks the backend was invoked on
    outcome,         \* per chunk, what the backend call did
    timed_out,       \* chunks whose Timer fired before the backend call returned
    contributed,     \* chunks whose result was appended / replaced the best answer
    notes            \* st.warning / st.error notifications, as <<kind, chunk>>

splitVars == <<max_length, overlap, k, current_chunk, split_pc>>
objVars == <<pdf_text, summary>>
callVars == <<pc, question, i, summaries, best_answer, highest_score, exc, armed,
              result, last>>
histVars == <<invoked, outcome, timed_out, contributed, notes>>
vars == <<splitVars, sentences, chunks, objVars, callVars, histVars>>

(* ------------------------------ inputs -------------------------------- *)
Alphabet == {"a", " "}

Strs(n) == UNION {[1..m -> Alphabet] : m \in 1..n}

\* a sentence has at least one character and does not end in whitespace
\* (the first may start with whitespace, and any may hold some)
Sentences == {s \in Strs(MaxSentLen) : ~IsSpace(s[Len(s)])}

SentenceSeqs == UNION {[1..m -> Sentences] : m \in 0..MaxSentences}

\* sentences of the documents the aggregators run on
Sent(n) == Rep("a", n - 1) \o <<".">>

DocSentences == {
    <<Sent(99)>>,
    <<Sent(100)>>,
    <<Sent(40), Sent(520)>>,
    <<Sent(300), Sent(300)>>,
    <<Sent(520), Sent(520), Sent(520)>> }

\* read_pdf appends "\n" to every page's text
Documents ==
    {[text |-> Join(ss) \o <<"\n">>, sentences |-> ss] : ss \in DocSentences}
    \cup {[text |-> t, sentences |-> <<>>] : t \in {<<>>, <<"\n">>, <<" ", "\n">>}}

Questions == {<<>>, <<" ">>, <<"q", "?">>}

\* what _summarize_text may return
SummaryTexts == {<<>>, <<"x">>, <<"y">>}

\* what _answer_question_from_context may return: an answer and a normalized
\* confidence in [0, 1], here in thousandths
Answers == {<<>>, <<" ">>, <<"p">>, <<"q">>}
Scores == {0, 304, 900}

(* ------------------------------ results ------------------------------- *)
Message(m) == [kind |-> "message", msg |-> m, text |-> <<>>, conf |-> 0]

Text(t) == [kind |-> "text", msg |-> "", text |-> t, conf |-> 0]

\* f"{x:.2f}": thousandths rounded to hundredths
Fmt2(score) == (score + 5) \div 10

\* line 256
AnswerText(answer, score) ==
    [kind |-> "answer", msg |-> "", text |-> answer, conf |-> Fmt2(score)]

NoResult == [kind |-> "none", msg |-> "", text |-> <<>>, conf |-> 0]

NoOutcome == [kind |-> "none", text |-> <<>>, score |-> 0]

(* ------------------------------- Init --------------------------------- *)
SplitIdle ==
    /\ max_length = 0 /\ overlap = 0 /\ k = 0
    /\ current_chunk = <<>> /\ split_pc = "off"

\* __init__, lines 37-53
ObjInit ==
    /\ pdf_text = <<>> /\ summary = <<>>
    /\ pc = "idle" /\ question = <<>> /\ i = 0
    /\ summaries = <<>> /\ best_answer = <<>> /\ highest_score = 0
    /\ exc = "none" /\ armed = {} /\ result = NoResult /\ last = "none"
    /\ invoked = {} /\ outcome = <<>> /\ timed_out = {} /\ contributed = {}
    /\ notes = {}

Init == SplitIdle /\ ObjInit /\ sentences = <<>> /\ chunks = <<>>

\* a direct call of _split_text's loop on any sentence sequence
InitSplit ==
    /\ ObjInit
    /\ sentences \in SentenceSeqs
    /\ max_length \in 1..MaxLength
    /\ overlap \in 0..(max_length - 1)
    /\ k = 0 /\ current_chunk = <<>> /\ chunks = <<>> /\ split_pc = "loop"

(* ---------------------- _split_text, step by step --------------------- *)
\* lines 277-279
SplitAppend ==
    /\ split_pc = "loop" /\ k < Len(sentences)
    /\ Fits(current_chunk, sentences[k + 1], max_length)
    /\ LET st == SplitStep([chunks |-> chunks, current_chunk |-> current_chunk],
                           sentences[k + 1], max_length, overlap)
       IN  chunks' = st.chunks /\ current_chunk' = st.current_chunk
    /\ k' = k + 1
    /\ UNCHANGED <<max_length, overlap, split_pc, sentences, objVars, callVars, histVars>>

\* lines 280-285
SplitClose ==
    /\ split_pc = "loop" /\ k < Len(sentences)
    /\ ~Fits(current_chunk, sentences[k + 1], max_length)
    /\ LET st == SplitStep([chunks |-> chunks, current_chunk |-> current_chunk],
                           sentences[k + 1], max_length, overlap)
       IN  chunks' = st.chunks /\ current_chunk' = st.current_chunk
    /\ k' = k + 1
    /\ UNCHANGED <<max_length, overlap, split_pc, sentences, objVars, callVars, histVars>>

\* lines 287-291
SplitReturn ==
    /\ split_pc = "loop" /\ k = Len(sentences)
    /\ chunks' = SplitFinish([chunks |-> chunks, current_chunk |-> current_chunk])
    /\ split_pc' = "returned"
    /\ UNCHANGED <<max_length, overlap, k, current_chunk, sentences, objVars, callVars,
                   histVars>>

NextSplit == SplitAppend \/ SplitClose \/ SplitReturn

SpecSplit == InitSplit /\ [][NextSplit]_vars

(* ------------------------------ read_pdf ------------------------------ *)
\* no call has been made yet: a behaviour follows the object through the
\* loading of documents and one call of generate_summary or answer_question
Idle == pc = "idle" /\ last = "none" /\ split_pc = "off"

\* the call has returned
Returned == pc = "idle" /\ last # "none"

\* a fresh call frame: locals and the history of the call
NewCall(kind, q, cs) ==
    /\ last' = kind
    /\ question' = q
    /\ chunks' = cs
    /\ summaries' = <<>> /\ best_answer' = <<>> /\ highest_score' = 0
    /\ exc' = "none"
    /\ invoked' = {} /\ timed_out' = {} /\ contributed' = {} /\ notes' = {}
    /\ outcome' = [c \in 1..Len(cs) |-> NoOutcome]

\* lines 75-95: self.pdf_text replaced by the extracted text
ReadPdf ==
    /\ Idle
    /\ \E d \in Documents : pdf_text' = d.text /\ sentences' = d.sentences
    /\ UNCHANGED <<splitVars, chunks, summary, callVars, histVars>>

(* -------------------------- the watchdog ------------------------------ *)
\* lines 33-34, on the Timer's own thread: the interval elapsed before
\* cancel(); TimeoutException is raised on that thread, which ends with it,
\* and the main thread goes on
TimerFire ==
    /\ \E t \in armed :
           /\ armed' = armed \ {t}
           /\ timed_out' = IF pc \in {"sum_call", "ans_call"}
                           THEN timed_out \cup {t} ELSE timed_out
    /\ UNCHANGED <<splitVars, sentences, chunks, objVars, pc, question, i, summaries,
                   best_answer, highest_score, exc, result, last, invoked, outcome,
                   contributed, notes>>

\* cancel() on the normal path only: a fault C10_WatchdogDisarmed detects
CancelUnlessRaised(t) == IF exc = "none" THEN armed \ {t} ELSE armed

\* timer.cancel() in the finally clauses, lines 155 and 242
Cancel(t) == armed \ {t}

(* -------------------------- generate_summary -------------------------- *)
\* lines 121-122
SummaryNoDocument ==
    /\ Idle /\ pdf_text = <<>>
    /\ NewCall("summary", <<>>, <<>>)
    /\ result' = Message("Please load a PDF first.")
    /\ UNCHANGED <<splitVars, sentences, objVars, pc, i, armed>>

\* lines 126-129
SummaryNoChunks ==
    /\ Idle /\ pdf_text # <<>>
    /\ split_text(pdf_text, sentences, SummaryMaxLength, SummaryOverlap) = <<>>
    /\ NewCall("summary", <<>>, <<>>)
    /\ result' = Message("Unable to extract meaningful text from the PDF.")
    /\ UNCHANGED <<splitVars, sentences, objVars, pc, i, armed>>

\* lines 126-133
SummaryStart ==
    /\ Idle /\ pdf_text # <<>>
    /\ LET cs == split_text(pdf_text, sentences, SummaryMaxLength, SummaryOverlap)
       IN  cs # <<>> /\ NewCall("summary", <<>>, cs)
    /\ result' = NoResult
    /\ i' = 1 /\ pc' = "sum_loop"
    /\ UNCHANGED <<splitVars, sentences, objVars, armed>>

\* TooShort with <= for <: a fault C7_SummaryJoin detects
TooShortInclusive(chunk) == Len(chunk) <= MinChunkLength

\* line 140: too short to summarize
TooShort(chunk) == Len(chunk) < MinChunkLength

\* lines 135-141: continue
SummarySkipShort ==
    /\ pc = "sum_loop" /\ i <= Len(chunks) /\ TooShort(chunks[i])
    /\ i' = i + 1
    /\ outcome' = [outcome EXCEPT ![i].kind = "short"]
    /\ UNCHANGED <<splitVars, sentences, chunks, objVars, pc, question, summaries,
                   best_answer, highest_score, exc, armed, result, last, invoked,
                   timed_out, contributed, notes>>

\* lines 135-149: the Timer is started and _summarize_text is called
SummaryArm ==
    /\ pc = "sum_loop" /\ i <= Len(chunks) /\ ~TooShort(chunks[i])
    /\ armed' = armed \cup {i}
    /\ invoked' = invoked \cup {i}
    /\ pc' = "sum_call"
    /\ UNCHANGED <<splitVars, sentences, chunks, objVars, question, i, summaries,
                   best_answer, highest_score, exc, result, last, outcome, timed_out,
                   contributed, notes>>

\* lines 149-150: _summarize_text returns and its summary is appended
SummaryBackendReturn ==
    /\ pc = "sum_call"
    /\ \E s \in SummaryTexts :
           /\ summaries' = Append(summaries, s)
           /\ outcome' = [outcome EXCEPT ![i] = [kind |-> "ok", text |-> s, score |-> 0]]
    /\ contributed' = contributed \cup {i}
    /\ pc' = "sum_finally"
    /\ UNCHANGED <<splitVars, sentences, chunks, objVars, question, i, best_answer,
                   highest_score, exc, armed, result, last, invoked, timed_out, notes>>

\* line 149: _summarize_text raises
SummaryBackendRaise ==
    /\ pc = "sum_call"
    /\ exc' = "Exception"
    /\ outcome' = [outcome EXCEPT ![i].kind = "error"]
    /\ pc' = "sum_finally"
    /\ UNCHANGED <<splitVars, sentences, chunks, objVars, question, i, summaries,
                   best_answer, highest_score, armed, result, last, invoked, timed_out,
                   contributed, notes>>

\* SummaryFinally leaving the loop on a backend exception: a fault
\* C6_FailureIsolation detects
SummaryFinallyAbort ==
    /\ pc = "sum_finally"
    /\ armed' = Cancel(i)
    /\ notes' = IF exc = "TimeoutException" THEN notes \cup {<<"warning", i>>}
                ELSE IF exc = "Exception" THEN notes \cup {<<"error", i>>}
                ELSE notes
    /\ exc' = "none"
    /\ i' = IF exc = "Exception" THEN Len(chunks) + 1 ELSE i + 1
    /\ pc' = "sum_loop"
    /\ UNCHANGED <<splitVars, sentences, chunks, objVars, question, summaries,
                   best_answer, highest_score, result, last, invoked, outcome,
                   timed_out, contributed>>

\* lines 151-161: the except TimeoutException clause, the finally clause, the
\* outer except clause, and on to the next chunk
SummaryFinally ==
    /\ pc = "sum_finally"
    /\ armed' = Cancel(i)
    /\ notes' = IF exc = "TimeoutException" THEN notes \cup {<<"warning", i>>}
                ELSE IF exc = "Exception" THEN notes \cup {<<"error", i>>}
                ELSE notes
    /\ exc' = "none"
    /\ i' = i + 1
    /\ pc' = "sum_loop"
    /\ UNCHANGED <<splitVars, sentences, chunks, objVars, question, summaries,
                   best_answer, highest_score, result, last, invoked, outcome,
                   timed_out, contributed>>

\* lines 163-169
SummaryResult(sums) ==
    IF sums = <<>>
    THEN Message("Could not generate a summary. Try a different document or check document quality.")
    ELSE Text(Join(sums))

SummaryLoopDone ==
    /\ pc = "sum_loop" /\ i > Len(chunks)
    /\ summary' = IF summaries = <<>> THEN summary ELSE Join(summaries)
    /\ result' = SummaryResult(summaries)
    /\ pc' = "idle"
    /\ UNCHANGED <<splitVars, sentences, chunks, pdf_text, question, i, summaries,
                   best_answer, highest_score, exc, armed, last, histVars>>

(* --------------------------- answer_question -------------------------- *)
\* lines 201-202
AnswerNoDocument ==
    /\ Idle /\ pdf_text = <<>>
    /\ \E q \in Questions : NewCall("answer", q, <<>>)
    /\ result' = Message("Please load a PDF first.")
    /\ UNCHANGED <<splitVars, sentences, objVars, pc, i, armed>>

\* the question checked before the document: a fault C5_BlankDocument detects
AnswerEmptyQuestionFirst ==
    /\ Idle
    /\ \E q \in Questions : strip(q) = <<>> /\ NewCall("answer", q, <<>>)
    /\ result' = Message("Please enter a valid question.")
    /\ UNCHANGED <<splitVars, sentences, objVars, pc, i, armed>>

\* lines 204-205
AnswerEmptyQuestion ==
    /\ Idle /\ pdf_text # <<>>
    /\ \E q \in Questions : strip(q) = <<>> /\ NewCall("answer", q, <<>>)
    /\ result' = Message("Please enter a valid question.")
    /\ UNCHANGED <<splitVars, sentences, objVars, pc, i, armed>>

\* lines 212-215
AnswerNoChunks ==
    /\ Idle /\ pdf_text # <<>>
    /\ split_text(pdf_text, sentences, AnswerMaxLength, AnswerOverlap) = <<>>
    /\ \E q \in Questions : strip(q) # <<>> /\ NewCall("answer", q, <<>>)
    /\ result' = Message("Unable to extract meaningful text from the PDF to answer questions.")
    /\ UNCHANGED <<splitVars, sentences, objVars, pc, i, armed>>

\* lines 212-221
AnswerStart ==
    /\ Idle /\ pdf_text # <<>>
    /\ LET cs == split_text(pdf_text, sentences, AnswerMaxLength, AnswerOverlap)
       IN  /\ cs # <<>>
           /\ \E q \in Questions : strip(q) # <<>> /\ NewCall("answer", q, cs)
    /\ result' = NoResult
    /\ i' = 1 /\ pc' = "ans_loop"
    /\ UNCHANGED <<splitVars, sentences, objVars, armed>>

\* lines 223-233: the Timer is started and _answer_question_from_context is called
AnswerArm ==
    /\ pc = "ans_loop" /\ i <= Len(chunks)
    /\ armed' = armed \cup {i}
    /\ invoked' = invoked \cup {i}
    /\ pc' = "ans_call"
    /\ UNCHANGED <<splitVars, sentences, chunks, objVars, question, i, summaries,
                   best_answer, highest_score, exc, result, last, outcome, timed_out,
                   contributed, notes>>

\* Better with >= for >: a fault C11_TieBreak detects
BetterOrEqual(score, answer, highest) == score >= highest /\ Len(strip(answer)) > 0

\* Better without the test for an empty answer: a fault C4_BestAnswer detects
BetterIgnoringEmpty(score, answer, highest) == score > highest

\* line 235
Better(score, answer, highest) == score > highest /\ Len(strip(answer)) > 0

\* lines 233-237: the backend returns and the running best is updated
AnswerBackendReturn ==
    /\ pc = "ans_call"
    /\ \E answer \in Answers, score \in Scores :
           /\ outcome' = [outcome EXCEPT
                             ![i] = [kind |-> "ok", text |-> answer, score |-> score]]
           /\ IF Better(score, answer, highest_score)
              THEN /\ highest_score' = score
                   /\ best_answer' = answer
                   /\ contributed' = contributed \cup {i}
              ELSE UNCHANGED <<highest_score, best_answer, contributed>>
    /\ pc' = "ans_finally"
    /\ UNCHANGED <<splitVars, sentences, chunks, objVars, question, i, summaries, exc,
                   armed, result, last, invoked, timed_out, notes>>

\* line 233: the backend raises
AnswerBackendRaise ==
    /\ pc = "ans_call"
    /\ exc' = "Exception"
    /\ outcome' = [outcome EXCEPT ![i].kind = "error"]
    /\ pc' = "ans_finally"
    /\ UNCHANGED <<splitVars, sentences, chunks, objVars, question, i, summaries,
                   best_answer, highest_score, armed, result, last, invoked, timed_out,
                   contributed, notes>>

\* lines 238-248: the except TimeoutException clause, the finally clause, the
\* outer except clause, and on to the next chunk
AnswerFinally ==
    /\ pc = "ans_finally"
    /\ armed' = Cancel(i)
    /\ notes' = IF exc = "TimeoutException" THEN notes \cup {<<"warning", i>>}
                ELSE IF exc = "Exception" THEN notes \cup {<<"error", i>>}
                ELSE notes
    /\ exc' = "none"
    /\ i' = i + 1
    /\ pc' = "ans_loop"
    /\ UNCHANGED <<splitVars, sentences, chunks, objVars, question, summaries,
                   best_answer, highest_score, result, last, invoked, outcome,
                   timed_out, contributed>>

\* lines 253-256
AnswerResult(answer, score) ==
    IF answer = <<>>
    THEN Message("I couldn't find an answer to that question in the document.")
    ELSE AnswerText(answer, score)

\* lines 223, 250-256
AnswerLoopDone ==
    /\ pc = "ans_loop" /\ i > Len(chunks)
    /\ result' = AnswerResult(best_answer, highest_score)
    /\ pc' = "idle"
    /\ UNCHANGED <<splitVars, sentences, chunks, objVars, question, i, summaries,
                   best_answer, highest_score, exc, armed, last, histVars>>

(* ------------------------------- Spec --------------------------------- *)
Next ==
    \/ ReadPdf
    \/ TimerFire
    \/ SummaryNoDocument
    \/ SummaryNoChunks
    \/ SummaryStart
    \/ SummarySkipShort
    \/ SummaryArm
    \/ SummaryBackendReturn
    \/ SummaryBackendRaise
    \/ SummaryFinally
    \/ SummaryLoopDone
    \/ AnswerNoDocument
    \/ AnswerEmptyQuestion
    \/ AnswerNoChunks
    \/ AnswerStart
    \/ AnswerArm
    \/ AnswerBackendReturn
    \/ AnswerBackendRaise
    \/ AnswerFinally
    \/ AnswerLoopDone

Spec == Init /\ [][Next]_vars

(* -------------------- properties of the chunk list -------------------- *)
\* the trailing min(overlap, len) characters of chunk c's predecessor
Carry(c) ==
    IF c = 1 THEN <<>>
    ELSE Suffix(chunks[c - 1], Min(overlap, Len(chunks[c - 1])))

\* chunk c without the overlap text carried over from its predecessor
Piece(c) == SubSeq(chunks[c], Len(LStrip(Carry(c))) + 1, Len(chunks[c]))

\* runs of whitespace collapsed to one space, the ends stripped
RECURSIVE Collapse(_)
Collapse(s) ==
    IF s = <<>> THEN s
    ELSE IF IsSpace(s[1])
         THEN IF Len(s) >= 2 /\ IsSpace(s[2]) THEN Collapse(Tail(s))
              ELSE <<" ">> \o Collapse(Tail(s))
         ELSE <<s[1]>> \o Collapse(Tail(s))

Norm(s) == strip(Collapse(s))

SplitReturned == split_pc = "returned"

\* C2 as claimed: every chunk is at most max_length long, except a chunk
\* that ends with a sentence which alone is longer than max_length.
C2_Original ==
    SplitReturned =>
        \A c \in 1..Len(chunks) :
            \/ Len(chunks[c]) <= max_length
            \/ \E j \in 1..Len(sentences) :
                   /\ Len(sentences[j]) > max_length
                   /\ IsSuffix(LStrip(sentences[j]), chunks[c])

\* C2 amended: every chunk is at most max_length + 1 long, except a chunk
\* that is the overlap carried over from its predecessor followed by one
\* sentence longer than max_length - overlap.
C2_LengthBound ==
    SplitReturned =>
        \A c \in 1..Len(chunks) :
            \/ Len(chunks[c]) <= max_length + 1
            \/ \E j \in 1..Len(sentences) :
                   /\ Len(sentences[j]) > max_length - overlap
                   /\ chunks[c] = strip(Carry(c) \o <<" ">> \o sentences[j])
                   /\ Len(chunks[c]) <= overlap + 1 + Len(sentences[j])

\* a chunk longer than max_length although no sentence is
C2_Witness ==
    /\ SplitReturned
    /\ \A j \in 1..Len(sentences) : Len(sentences[j]) <= max_length
    /\ \E c \in 1..Len(chunks) : Len(chunks[c]) = max_length + 1

\* C3 as claimed: with overlap > 0, the trailing min(overlap, len(chunk c))
\* characters of chunk c are a prefix of chunk c + 1.
C3_Original ==
    (SplitReturned /\ overlap > 0) =>
        \A c \in 1..(Len(chunks) - 1) : IsPrefix(Carry(c + 1), chunks[c + 1])

\* C3 amended: with overlap > 0, the trailing min(overlap, len(chunk c))
\* characters of chunk c, less their leading whitespace, are a prefix of
\* chunk c + 1.
C3_OverlapPrefix ==
    (SplitReturned /\ overlap > 0) =>
        \A c \in 1..(Len(chunks) - 1) :
            IsPrefix(LStrip(Carry(c + 1)), chunks[c + 1])

\* two chunks, the overlap window of the first starting at whitespace
C3_Witness ==
    /\ SplitReturned /\ overlap > 0 /\ Len(chunks) >= 2
    /\ \E c \in 1..(Len(chunks) - 1) :
           /\ LStrip(Carry(c + 1)) # Carry(c + 1)
           /\ LStrip(Carry(c + 1)) # <<>>

\* C8: the chunks without the overlap text each carries over from its
\* predecessor, put together in order, are the sentences in order, each once
\* (up to the whitespace between them).
C8_SentenceOrder ==
    SplitReturned =>
        Norm(Join([c \in 1..Len(chunks) |-> Piece(c)])) = Norm(Join(sentences))

\* three chunks with overlap carried over
C8_Witness ==
    /\ SplitReturned /\ overlap > 0 /\ Len(chunks) >= 3
    /\ \A c \in 2..Len(chunks) : Len(LStrip(Carry(c))) > 0

\* C9 as claimed: a sentence longer than max_length is a chunk by itself.
C9_Original ==
    SplitReturned =>
        \A j \in 1..Len(sentences) :
            Len(sentences[j]) > max_length =>
                \E c \in 1..Len(chunks) : chunks[c] = strip(sentences[j])

\* C9 amended: a sentence longer than max_length is emitted whole, as the
\* end of a chunk that holds nothing else but the overlap text carried
\* over from the preceding chunk.
C9_LongSentence ==
    SplitReturned =>
        \A j \in 1..Len(sentences) :
            Len(sentences[j]) > max_length =>
                \E c \in 1..Len(chunks) :
                    chunks[c] = strip(Carry(c) \o <<" ">> \o sentences[j])

\* a long sentence after another sentence, with overlap
C9_Witness ==
    /\ SplitReturned /\ overlap > 0
    /\ \E j \in 2..Len(sentences) : Len(sentences[j]) > max_length
    /\ \E c \in 2..Len(chunks) : Len(chunks[c]) > max_length + 1

(* --------------------- properties of the aggregators ------------------ *)
ChunkIds == 1..Len(chunks)

\* the chunks generate_summary / answer_question call the backend on
Eligible ==
    IF last = "summary" THEN {c \in ChunkIds : Len(chunks[c]) >= MinChunkLength}
    ELSE ChunkIds

\* the chunk ids satisfying Keep(_), in chunk order
InOrder(Keep(_)) == SelectSeq([c \in ChunkIds |-> c], Keep)

TextsOf(ids) == [n \in 1..Len(ids) |-> outcome[ids[n]].text]

NonEmptyAnswer(c) == outcome[c].kind = "ok" /\ Len(strip(outcome[c].text)) > 0

\* the fold of answer_question over the backend results of the chunks ids
RECURSIVE BestOf(_, _)
BestOf(ids, best) ==
    IF ids = <<>> THEN best
    ELSE LET o == outcome[Head(ids)]
         IN  BestOf(Tail(ids),
                    IF o.score > best.score /\ Len(strip(o.text)) > 0
                    THEN [answer |-> o.text, score |-> o.score] ELSE best)

\* C1 (the claim, which the code does not meet): a chunk whose watchdog
\* fired before its backend call returned ends as a timeout: its result is
\* neither appended nor made the best answer, and once the loop has moved
\* on the "took too long" warning for it has been given.
C1_TimeoutOutcome ==
    \A t \in timed_out :
        /\ t \notin contributed
        /\ (t < i \/ Returned) => <<"warning", t>> \in notes

\* C4 as claimed: with no chunk timing out or failing, a non-empty answer
\* of maximum confidence among the non-empty answers is returned with that
\* confidence, and the sentinel when every answer is empty.
C4_Original ==
    (/\ Returned /\ last = "answer" /\ chunks # <<>>
     /\ timed_out = {} /\ \A c \in ChunkIds : outcome[c].kind = "ok") =>
        LET ne == {c \in ChunkIds : NonEmptyAnswer(c)}
        IN  IF ne # {}
            THEN \E c \in ne :
                     /\ \A d \in ne : outcome[d].score <= outcome[c].score
                     /\ result = AnswerText(outcome[c].text, outcome[c].score)
            ELSE result = Message("I couldn't find an answer to that question in the document.")

\* C4 amended: the same, the non-empty answers counting only when their
\* confidence is above 0; when none is, the sentinel is returned.
C4_BestAnswer ==
    (/\ Returned /\ last = "answer" /\ chunks # <<>>
     /\ timed_out = {} /\ \A c \in ChunkIds : outcome[c].kind = "ok") =>
        LET ne == {c \in ChunkIds : NonEmptyAnswer(c) /\ outcome[c].score > 0}
        IN  IF ne # {}
            THEN \E c \in ne :
                     /\ \A d \in ne : outcome[d].score <= outcome[c].score
                     /\ result = AnswerText(outcome[c].text, outcome[c].score)
            ELSE result = Message("I couldn't find an answer to that question in the document.")

\* three chunks: the most confident non-empty answer in the middle is
\* returned, the last chunk's empty answer of the same score is not
C4_Witness ==
    /\ Returned /\ last = "answer" /\ Len(chunks) = 3 /\ timed_out = {}
    /\ \A c \in ChunkIds : outcome[c].kind = "ok"
    /\ NonEmptyAnswer(1) /\ outcome[1].score = 304
    /\ NonEmptyAnswer(2) /\ outcome[2].score = 900
    /\ ~NonEmptyAnswer(3) /\ outcome[3].score = 900
    /\ result = AnswerText(outcome[2].text, 900)

BlankDocument == pdf_text = <<>> \/ isspace(pdf_text)

NoChunksFor(text) ==
    /\ split_text(text, sentences, SummaryMaxLength, SummaryOverlap) = <<>>
    /\ split_text(text, sentences, AnswerMaxLength, AnswerOverlap) = <<>>

\* C5 as claimed: on an empty or whitespace-only text _split_text gives no
\* chunk and both aggregators return "Please load a PDF first." without
\* calling a backend.
C5_Original ==
    (Returned /\ BlankDocument) =>
        /\ NoChunksFor(pdf_text)
        /\ invoked = {}
        /\ result = Message("Please load a PDF first.")

\* C5 amended: on an empty or whitespace-only text _split_text gives no
\* chunk and no backend is called; the empty text gets "Please load a PDF
\* first.", the whitespace-only text the "Unable to extract meaningful
\* text" message of the aggregator (answer_question: after "Please enter a
\* valid question." for a blank question).
C5_BlankDocument ==
    (Returned /\ BlankDocument) =>
        /\ NoChunksFor(pdf_text)
        /\ invoked = {}
        /\ result =
             IF pdf_text = <<>> THEN Message("Please load a PDF first.")
             ELSE IF last = "summary"
                  THEN Message("Unable to extract meaningful text from the PDF.")
             ELSE IF strip(question) = <<>>
                  THEN Message("Please enter a valid question.")
             ELSE Message("Unable to extract meaningful text from the PDF to answer questions.")

\* answer_question has returned on a whitespace-only text
C5_Witness ==
    /\ Returned /\ isspace(pdf_text) /\ last = "answer" /\ strip(question) # <<>>
    /\ result.kind = "message"

\* C6: a chunk whose backend call raised is skipped with an error
\* notification; when the aggregator has returned, the backend was called
\* on every eligible chunk, no exception is propagating, and the result is
\* the one the chunks whose call did not raise give.
C6_FailureIsolation ==
    /\ \A c \in ChunkIds :
           (outcome[c].kind = "error" /\ (c < i \/ Returned)) =>
               <<"error", c>> \in notes /\ c \notin contributed
    /\ (Returned /\ chunks # <<>>) =>
           /\ invoked = Eligible
           /\ exc = "none"
           /\ LET ok(c) == outcome[c].kind = "ok"
                  best == BestOf(InOrder(ok), [answer |-> <<>>, score |-> 0])
              IN  result = IF last = "summary"
                           THEN SummaryResult(TextsOf(InOrder(ok)))
                           ELSE AnswerResult(best.answer, best.score)

\* the first two of three chunks failed and the third gave the result
C6_Witness ==
    /\ Returned /\ Len(chunks) = 3
    /\ outcome[1].kind = "error" /\ outcome[2].kind = "error"
    /\ outcome[3].kind = "ok" /\ 3 \in contributed
    /\ result.kind \in {"text", "answer"}

\* C7: generate_summary on a text with chunks returns the single-space
\* join, in chunk order, of the summaries of the chunks of at least 100
\* characters whose backend call returned, and the "Could not generate a
\* summary" sentinel when there is no such chunk.
C7_SummaryJoin ==
    (Returned /\ last = "summary" /\ chunks # <<>>) =>
        LET kept(c) == Len(chunks[c]) >= 100 /\ outcome[c].kind = "ok"
            texts == TextsOf(InOrder(kept))
        IN  /\ invoked = {c \in ChunkIds : Len(chunks[c]) >= 100}
            /\ texts = <<>> =>
                result = Message("Could not generate a summary. Try a different document or check document quality.")
            /\ texts # <<>> => result = Text(Join(texts)) /\ summary = Join(texts)

\* a short chunk left out and a long one summarized
C7_Witness ==
    /\ Returned /\ last = "summary" /\ Len(chunks) = 2
    /\ Len(chunks[1]) < 100 /\ outcome[1].kind = "short"
    /\ outcome[2].kind = "ok" /\ result = Text(outcome[2].text)

\* C10: at most one watchdog is armed, the one of the chunk whose backend
\* call is running or has just ended; none is armed when the loop arms
\* the next one, and none once the aggregator has returned.
C10_WatchdogDisarmed ==
    /\ Cardinality(armed) <= 1
    /\ armed \subseteq {i}
    /\ pc \in {"idle", "sum_loop", "ans_loop"} => armed = {}

\* returned after a normal return, a watchdog that fired, and an exception
C10_Witness ==
    /\ Returned /\ Len(chunks) = 3
    /\ outcome[1].kind = "ok" /\ 1 \notin timed_out
    /\ 2 \in timed_out
    /\ outcome[3].kind = "error" /\ 3 \notin timed_out

\* the earliest chunk among ids whose answer has the highest confidence
EarliestBest(ids) ==
    CHOOSE c \in ids :
        /\ \A d \in ids : outcome[d].score <= outcome[c].score
        /\ \A d \in ids : outcome[d].score = outcome[c].score => c <= d

\* the chunks among ids whose answer has the highest confidence
Tied(ids) == {c \in ids : \A d \in ids : outcome[d].score <= outcome[c].score}

\* the running best pair moves only to a strictly greater score
StrictImprovement ==
    /\ highest_score' >= highest_score
    /\ (best_answer' # best_answer \/ highest_score' # highest_score) =>
           highest_score' > highest_score

AnswerReturns == pc = "ans_loop" /\ pc' = "idle"

\* C11 as claimed: when several chunks tie at the highest confidence of a
\* non-empty answer, answer_question returns the answer of the earliest, and the
\* running best pair is replaced only by a strictly greater score.
C11_Original ==
    [][/\ StrictImprovement
       /\ AnswerReturns =>
              LET ne == {c \in ChunkIds : NonEmptyAnswer(c)}
              IN  Cardinality(Tied(ne)) >= 2 =>
                      result' = AnswerText(outcome[EarliestBest(ne)].text,
                                           outcome[EarliestBest(ne)].score)]_vars

\* C11 amended: the same when that highest confidence is above 0 (when it
\* is 0 no answer ever replaces the initial best pair).
C11_TieBreak ==
    [][/\ StrictImprovement
       /\ AnswerReturns =>
              LET ne == {c \in ChunkIds : NonEmptyAnswer(c) /\ outcome[c].score > 0}
              IN  Cardinality(Tied(ne)) >= 2 =>
                      result' = AnswerText(outcome[EarliestBest(ne)].text,
                                           outcome[EarliestBest(ne)].score)]_vars

\* two different non-empty answers tie at the highest confidence and the
\* earlier one is returned
C11_Witness ==
    /\ Returned /\ last = "answer" /\ Len(chunks) = 3
    /\ NonEmptyAnswer(1) /\ outcome[1].score = 304
    /\ NonEmptyAnswer(2) /\ outcome[2].score = 900
    /\ NonEmptyAnswer(3) /\ outcome[3].score = 900
    /\ outcome[2].text # outcome[3].text
    /\ result = AnswerText(outcome[2].text, 900)

====
